---- MODULE Spec2Model ----
(***************************************************************************)
(* Model of the header-detection and profile-matching engine of the Excel  *)
(* data extractor: file_processor.read_excel_files (per-sheet body) and     *)
(* profile_manager.ExtractionProfile.                                      *)
(*                                                                         *)
(* Text values are sequences of one-character strings, so that str(),      *)
(* strip(), split(), replace() and startswith() are computed character by  *)
(* character as Python computes them.                                      *)
(***************************************************************************)
EXTENDS Integers, Sequences, FiniteSets, TLC

VARIABLES raw_df, header_row, df, sheet_state,
          column_patterns, file_data, selections, profile_pc, last_add,
          descriptive_names, names_pc, failing_cols,
          file_paths, read_pc,
          workbook, merge_result,
          profiles, heap, disk, last_call,
          default_profile_name, settings, writers,
          selected_columns, checked, current_sheet, tab, output_thread

vars == <<raw_df, header_row, df, sheet_state,
          column_patterns, file_data, selections, profile_pc, last_add,
          descriptive_names, names_pc, failing_cols,
          file_paths, read_pc,
          workbook, merge_result,
          profiles, heap, disk, last_call,
          default_profile_name, settings, writers,
          selected_columns, checked, current_sheet, tab, output_thread>>
headerVars == <<raw_df, header_row, df, sheet_state>>
profileVars == <<column_patterns, file_data, selections, profile_pc, last_add>>
namesVars == <<descriptive_names, names_pc, failing_cols>>
\* the variables header detection, resp. the profile, leaves alone
readVars == <<file_paths, read_pc>>
mergeVars == <<workbook, merge_result>>
storeVars == <<profiles, heap, disk, last_call, default_profile_name, settings, writers>>
defaultVars == <<default_profile_name, settings>>
qtVars == <<selected_columns, checked, current_sheet, tab, output_thread>>
notHeaderVars == <<profileVars, namesVars, readVars, mergeVars, storeVars, qtVars>>
notProfileVars == <<headerVars, namesVars, readVars, mergeVars, storeVars, qtVars>>
notStoreVars == <<headerVars, profileVars, namesVars, readVars, mergeVars, qtVars>>

(***************************************************************************)
(* Bounds of the model.                                                    *)
(***************************************************************************)
\* widest raw grid
MaxCols == 3
\* number of all-missing rows that may precede the body of a raw grid
MaxLead == 10
\* number of arbitrary rows that follow the leading rows
MaxBody == 2

(***************************************************************************)
(* Python text primitives.                                                 *)
(***************************************************************************)
Whitespace == {" "}

DigitChars == <<"0", "1", "2", "3", "4", "5", "6", "7", "8", "9">>

\* str(n) for a non-negative integer
RECURSIVE IntStr(_)
IntStr(n) ==
    IF n < 10 THEN <<DigitChars[n + 1]>>
    ELSE IntStr(n \div 10) \o <<DigitChars[(n % 10) + 1]>>

RECURSIVE LStrip(_)
LStrip(s) ==
    IF s # <<>> /\ Head(s) \in Whitespace THEN LStrip(Tail(s)) ELSE s

RECURSIVE RStrip(_)
RStrip(s) ==
    IF s # <<>> /\ s[Len(s)] \in Whitespace
    THEN RStrip(SubSeq(s, 1, Len(s) - 1))
    ELSE s

\* s.strip()
Strip(s) == RStrip(LStrip(s))

\* s.startswith(p)
StartsWith(s, p) == Len(s) >= Len(p) /\ SubSeq(s, 1, Len(p)) = p

(***************************************************************************)
(* Cells of a raw grid: missing (NaN), text, or number.                    *)
(***************************************************************************)
NaN == [kind |-> "nan", text |-> <<>>, num |-> 0]
TextCell(s) == [kind |-> "str", text |-> s, num |-> 0]
NumCell(n) == [kind |-> "num", text |-> <<>>, num |-> n]

\* pd.isna(h)
IsNa(c) == c.kind = "nan"

\* str(h) of a non-missing cell; a number cell holds the integer as the row
\* yields it, and str gives its decimal digits
PyStr(c) == IF c.kind = "num" THEN IntStr(c.num) ELSE c.text

\* f"Column_{i}", i the 0-based column position
ColumnName(i) == <<"C", "o", "l", "u", "m", "n", "_">> \o IntStr(i)

(***************************************************************************)
(* read_excel_files, the body of the per-sheet loop.                       *)
(* A raw grid is [ncols, rows]; rows are 1-indexed here, the code's row i  *)
(* is rows[i + 1].                                                         *)
(***************************************************************************)
\* the scan window of the header search
MaxCheckRows == 10

Min(a, b) == IF a <= b THEN a ELSE b

\* len(raw_df.iloc[i].dropna())
NonMissingCount(g, i) == Cardinality({k \in 1..g.ncols : ~IsNa(g.rows[i + 1][k])})

\* the test of line 154; the float comparison n >= cols / 2 is 2n >= cols
RowQualifies(g, i) ==
    /\ NonMissingCount(g, i) > 0
    /\ 2 * NonMissingCount(g, i) >= g.ncols

\* variant: only a grid without columns counts as empty
IsEmpty_NoColumns(g) == g.ncols = 0

\* raw_df.empty: no rows or no columns
IsEmpty(g) == Len(g.rows) = 0 \/ g.ncols = 0

\* ScanHeader with the scan running over every row of the grid
RECURSIVE ScanHeader_WholeGrid(_, _)
ScanHeader_WholeGrid(g, i) ==
    IF i >= Len(g.rows) THEN 0
    ELSE IF RowQualifies(g, i) THEN i
    ELSE ScanHeader_WholeGrid(g, i + 1)

\* the for loop of lines 151-158 from index i on; header_row starts at 0 and
\* is assigned the first index whose row passes the test
RECURSIVE ScanHeader(_, _)
ScanHeader(g, i) ==
    IF i >= Min(MaxCheckRows, Len(g.rows)) THEN 0
    ELSE IF RowQualifies(g, i) THEN i
    ELSE ScanHeader(g, i + 1)

DetectHeaderRow(g) == ScanHeader(g, 0)

\* line 166: headers cleaned up
CleanHeaders(g, h) ==
    [k \in 1..g.ncols |->
        IF IsNa(g.rows[h + 1][k]) THEN ColumnName(k - 1)
        ELSE Strip(PyStr(g.rows[h + 1][k]))]

\* line 169: list(range(0, header_row)) + list(range(header_row+1, len(raw_df)))
DataRows(g, h) ==
    [j \in 1..(Len(g.rows) - 1) |-> IF j <= h THEN j - 1 ELSE j]

\* lines 161-182: the table built from the grid once header_row is known
BuildTable(g, h) ==
    IF h > 0
    THEN [columns |-> CleanHeaders(g, h),
          values  |-> [j \in 1..(Len(g.rows) - 1) |-> g.rows[DataRows(g, h)[j] + 1]]]
    ELSE [columns |-> [k \in 1..g.ncols |-> ColumnName(k - 1)],
          values  |-> g.rows]

NoTable == [columns |-> <<>>, values |-> <<>>]

(***************************************************************************)
(* Raw grids the loader may hand over.                                     *)
(***************************************************************************)
\* the value a populated cell of column k (1-based) holds: padded text in odd
\* columns, a number in even columns
CellAt(k) ==
    IF k % 2 = 1 THEN TextCell(<<" ", "I", "D", DigitChars[(k % 10) + 1], " ">>)
    ELSE NumCell(70 + k)

\* the rows of width w: any set of populated columns
RowsOfWidth(w) ==
    {[k \in 1..w |-> IF k \in P THEN CellAt(k) ELSE NaN] : P \in SUBSET (1..w)}

SeqsUpTo(S, n) == UNION {[1..m -> S] : m \in 0..n}

Grids ==
    {[ncols |-> t[1], rows |-> [j \in 1..t[2] |-> [k \in 1..t[1] |-> NaN]] \o t[3]] :
        t \in UNION {{<<w, lead, body>> :
                        lead \in 0..MaxLead, body \in SeqsUpTo(RowsOfWidth(w), MaxBody)}
                     : w \in 0..MaxCols}}

HeaderInit ==
    /\ raw_df \in Grids
    /\ header_row = 0
    /\ df = NoTable
    /\ sheet_state = "raw"

\* lines 140-144: an empty sheet is skipped
SkipEmptySheet ==
    /\ sheet_state = "raw"
    /\ IsEmpty(raw_df)
    /\ sheet_state' = "skipped"
    /\ UNCHANGED <<raw_df, header_row, df>>

\* lines 146-185: header detection and storing of the table
ReadSheet ==
    /\ sheet_state = "raw"
    /\ ~IsEmpty(raw_df)
    /\ header_row' = DetectHeaderRow(raw_df)
    /\ df' = BuildTable(raw_df, header_row')
    /\ sheet_state' = "stored"
    /\ UNCHANGED raw_df

\* last_add records the last call of add_column_pattern: its arguments and
\* the list as it was before the call
NoAdd == [pattern |-> <<>>, columns |-> <<>>, before |-> <<>>]

ProfileIdle ==
    /\ column_patterns = <<>>
    /\ file_data = <<>>
    /\ selections = <<>>
    /\ profile_pc = "build"
    /\ last_add = NoAdd

\* detect_descriptive_column_names not called
NamesIdle ==
    /\ descriptive_names = <<>>
    /\ names_pc = "idle"
    /\ failing_cols = {}

\* read_excel_files not called
ReadIdle ==
    /\ file_paths = <<>>
    /\ read_pc = "idle"

\* the workbook no call has saved
NoWorkbook == [worksheets |-> <<>>, summary |-> {}]

\* process_and_merge_data not called
MergeIdle ==
    /\ workbook = NoWorkbook
    /\ merge_result = "none"

\* no call of the ProfileManager made yet
\* the clients that write to the store at the same time, none of them started
Writers == {1, 2}
NoWriters == [w \in Writers |-> [pc |-> "start", oid |-> 0, pattern |-> <<>>]]

NoCall ==
    [op |-> "none", arg |-> 0, ret |-> 0, ok |-> TRUE, name |-> <<>>, new |-> <<>>,
     before |-> <<>>, before_default |-> <<>>, seq |-> 0]

\* ProfileManager over an empty profiles directory
StoreIdle ==
    /\ profiles = <<>>
    /\ heap = <<>>
    /\ disk = <<>>
    /\ last_call = NoCall
    /\ default_profile_name = <<>>
    /\ settings = <<>>
    /\ writers = NoWriters

\* the window before a ZIP file has been processed: nothing selected, no
\* checkbox, no sheet shown, the upload tab in front, no output thread
NoThread == [started |-> FALSE, selected_columns |-> <<>>]

QtIdle ==
    /\ selected_columns = <<>>
    /\ checked = {}
    /\ current_sheet = <<>>
    /\ tab = "upload"
    /\ output_thread = NoThread

Init == HeaderInit /\ ProfileIdle /\ NamesIdle /\ ReadIdle /\ MergeIdle /\ StoreIdle /\ QtIdle

Next ==
    \/ SkipEmptySheet /\ UNCHANGED notHeaderVars
    \/ ReadSheet /\ UNCHANGED notHeaderVars

Spec == Init /\ [][Next]_vars

(***************************************************************************)
(* Claims about header detection (checked under Spec).                     *)
(***************************************************************************)
\* the rows the claims call "the first min(10, row_count) rows"
ScanWindow(g) == 0..(Min(10, Len(g.rows)) - 1)

\* rows of the window that are at least half populated and not all missing
HalfPopulated(g) ==
    {i \in ScanWindow(g) :
        LET n == Cardinality({k \in 1..g.ncols : g.rows[i + 1][k] # NaN})
        IN  n > 0 /\ 2 * n >= g.ncols}

FirstHalfPopulated(g) ==
    CHOOSE i \in HalfPopulated(g) : \A j \in HalfPopulated(g) : i <= j

\* the rows of g without row i (0-based), in their original order
RowsExcept(g, i) == SubSeq(g.rows, 1, i) \o SubSeq(g.rows, i + 2, Len(g.rows))

SyntheticNames(n) == [k \in 1..n |-> <<"C", "o", "l", "u", "m", "n", "_">> \o IntStr(k - 1)]

\* C1: whenever some row of the scan window is half populated, the first such
\* row (index 0 included) is the header row and the table has row_count - 1
\* data rows.
C1_FirstQualifyingRowIsHeader ==
    (sheet_state = "stored" /\ HalfPopulated(raw_df) # {}) =>
        /\ header_row = FirstHalfPopulated(raw_df)
        /\ Len(df.values) = Len(raw_df.rows) - 1

\* C2: when a header row is found at index i of the scan window, the column
\* names are that row's cells as trimmed text, a missing cell at position k
\* being named Column_k.
C2_HeaderNamesFromRow ==
    (sheet_state = "stored" /\ HalfPopulated(raw_df) # {}) =>
        LET hdr == raw_df.rows[FirstHalfPopulated(raw_df) + 1]
        IN  /\ Len(df.columns) = raw_df.ncols
            /\ \A k \in 1..raw_df.ncols :
                  df.columns[k] =
                      IF hdr[k] = NaN THEN SyntheticNames(raw_df.ncols)[k]
                      ELSE Strip(PyStr(hdr[k]))

\* C3: when a header row is found at index i, the data rows are the rows of
\* the grid other than row i, in their original order.
C3_DataRowsExciseHeader ==
    (sheet_state = "stored" /\ HalfPopulated(raw_df) # {}) =>
        df.values = RowsExcept(raw_df, FirstHalfPopulated(raw_df))

\* C4: when no row of the scan window has non_missing >= column_count / 2
\* (rows at index 10 or later do not count), the columns are named
\* Column_0 .. Column_{n-1} and every row of the grid is kept, in order.
C4_NoHeaderKeepsAllRows ==
    (/\ sheet_state = "stored"
     /\ \A i \in ScanWindow(raw_df) :
           2 * Cardinality({k \in 1..raw_df.ncols : raw_df.rows[i + 1][k] # NaN}) < raw_df.ncols)
    => /\ df.columns = SyntheticNames(raw_df.ncols)
       /\ df.values = raw_df.rows

\* C4 witness: a stored table of a grid whose window has no qualifying row
\* but whose row 10 is fully populated
C4_Witness ==
    /\ sheet_state = "stored"
    /\ Len(raw_df.rows) > 10
    /\ HalfPopulated(raw_df) = {}
    /\ \A k \in 1..raw_df.ncols : raw_df.rows[11][k] # NaN
    /\ df.values = raw_df.rows

(***************************************************************************)
(* ExtractionProfile: pattern strings and matching.                        *)
(* column_patterns is the list of <<pattern, columns>> entries; file_data  *)
(* maps file name -> sheet name -> df.columns; selections is the value     *)
(* match_to_new_files returned, once profile_pc = "matched".                *)
(***************************************************************************)
FilePrefix == <<"f", "i", "l", "e", ":">>
SheetPrefix == <<"s", "h", "e", "e", "t", ":">>
Bar == "|"

\* the set of elements of a list
Range(s) == {s[i] : i \in 1..Len(s)}

\* s.split("|")
RECURSIVE Split(_)
Split(s) ==
    IF Bar \notin Range(s) THEN <<s>>
    ELSE LET i == CHOOSE j \in 1..Len(s) : s[j] = Bar /\ \A k \in 1..(j - 1) : s[k] # Bar
         IN  <<SubSeq(s, 1, i - 1)>> \o Split(SubSeq(s, i + 1, Len(s)))

\* s.replace(old, ""): every occurrence of old, found left to right, is removed
RECURSIVE RemoveAll(_, _)
RemoveAll(s, old) ==
    IF Len(s) < Len(old) THEN s
    ELSE IF StartsWith(s, old) THEN RemoveAll(SubSeq(s, Len(old) + 1, Len(s)), old)
    ELSE <<Head(s)>> \o RemoveAll(Tail(s), old)

\* add_file_selection, line 96: f"file:{file_name}|sheet:{sheet_name}"
FilePattern(file_name, sheet_name) ==
    FilePrefix \o file_name \o <<Bar>> \o SheetPrefix \o sheet_name

\* _pattern_matches_sheet with the bare comparison made on trimmed names
_pattern_matches_sheet_TrimBare(pattern, file_name, sheet_name) ==
    IF StartsWith(pattern, FilePrefix)
    THEN LET parts == Split(pattern)
         IN  IF Len(parts) # 2 THEN FALSE
             ELSE LET file_pattern  == Strip(RemoveAll(parts[1], FilePrefix))
                      sheet_pattern == Strip(RemoveAll(parts[2], SheetPrefix))
                  IN  file_name = file_pattern /\ sheet_name = sheet_pattern
    ELSE Strip(sheet_name) = Strip(pattern)

\* _pattern_matches_sheet with a pattern of other than two parts compared as
\* a bare sheet name
_pattern_matches_sheet_MalformedAsBare(pattern, file_name, sheet_name) ==
    IF StartsWith(pattern, FilePrefix) /\ Len(Split(pattern)) = 2
    THEN LET parts == Split(pattern)
             file_pattern  == Strip(RemoveAll(parts[1], FilePrefix))
             sheet_pattern == Strip(RemoveAll(parts[2], SheetPrefix))
         IN  file_name = file_pattern /\ sheet_name = sheet_pattern
    ELSE sheet_name = pattern

\* _pattern_matches_sheet with the file name of a file-specific pattern ignored
_pattern_matches_sheet_IgnoreFile(pattern, file_name, sheet_name) ==
    IF StartsWith(pattern, FilePrefix)
    THEN LET parts == Split(pattern)
         IN  IF Len(parts) # 2 THEN FALSE
             ELSE sheet_name = Strip(RemoveAll(parts[2], SheetPrefix))
    ELSE sheet_name = pattern

\* _pattern_matches_sheet
_pattern_matches_sheet(pattern, file_name, sheet_name) ==
    IF StartsWith(pattern, FilePrefix)
    THEN LET parts == Split(pattern)
         IN  IF Len(parts) # 2 THEN FALSE
             ELSE LET file_pattern  == Strip(RemoveAll(parts[1], FilePrefix))
                      sheet_pattern == Strip(RemoveAll(parts[2], SheetPrefix))
                  IN  file_name = file_pattern /\ sheet_name = sheet_pattern
    ELSE sheet_name = pattern

\* AddColumns without the test `col in df.columns`
RECURSIVE AddColumns_NoTableCheck(_, _, _)
AddColumns_NoTableCheck(selected, columns, df_columns) ==
    IF columns = <<>> THEN selected
    ELSE LET col == Head(columns)
         IN  AddColumns_NoTableCheck(IF col \notin Range(selected)
                                     THEN Append(selected, col) ELSE selected,
                                     Tail(columns), df_columns)

\* AddColumns without the test `col not in selections[file_name][sheet_name]`
RECURSIVE AddColumns_NoDuplicateCheck(_, _, _)
AddColumns_NoDuplicateCheck(selected, columns, df_columns) ==
    IF columns = <<>> THEN selected
    ELSE LET col == Head(columns)
         IN  AddColumns_NoDuplicateCheck(IF col \in Range(df_columns)
                                         THEN Append(selected, col) ELSE selected,
                                         Tail(columns), df_columns)

\* lines 153-155: the columns of one pattern added to the list of one sheet
RECURSIVE AddColumns(_, _, _)
AddColumns(selected, columns, df_columns) ==
    IF columns = <<>> THEN selected
    ELSE LET col == Head(columns)
         IN  AddColumns(IF col \in Range(df_columns) /\ col \notin Range(selected)
                        THEN Append(selected, col) ELSE selected,
                        Tail(columns), df_columns)

\* selections.get(file, {}).get(sheet, []) as the loop body sees it
Selected(sel, f, s) ==
    IF f \in DOMAIN sel /\ s \in DOMAIN sel[f] THEN sel[f][s] ELSE <<>>

\* ApplyPattern with the keys made only when a column is added
ApplyPattern_SkipsEmpty(sel, pattern, columns, fd) ==
    LET hit(f) == {s \in DOMAIN fd[f] :
                      /\ _pattern_matches_sheet(pattern, f, s)
                      /\ AddColumns(Selected(sel, f, s), columns, fd[f][s]) # <<>>}
        files  == DOMAIN sel \cup {f \in DOMAIN fd : hit(f) # {}}
        sheets(f) == (IF f \in DOMAIN sel THEN DOMAIN sel[f] ELSE {})
                     \cup (IF f \in DOMAIN fd THEN hit(f) ELSE {})
    IN  [f \in files |->
            [s \in sheets(f) |->
                IF f \in DOMAIN fd /\ s \in hit(f)
                THEN AddColumns(Selected(sel, f, s), columns, fd[f][s])
                ELSE sel[f][s]]]

\* ApplyPattern with a matching pattern replacing the list of the sheet
ApplyPattern_Override(sel, pattern, columns, fd) ==
    LET hit(f) == {s \in DOMAIN fd[f] : _pattern_matches_sheet(pattern, f, s)}
        files  == DOMAIN sel \cup {f \in DOMAIN fd : hit(f) # {}}
        sheets(f) == (IF f \in DOMAIN sel THEN DOMAIN sel[f] ELSE {})
                     \cup (IF f \in DOMAIN fd THEN hit(f) ELSE {})
    IN  [f \in files |->
            [s \in sheets(f) |->
                IF f \in DOMAIN fd /\ s \in hit(f)
                THEN AddColumns(<<>>, columns, fd[f][s])
                ELSE sel[f][s]]]

\* lines 142-155: one pattern applied to every sheet of every file
ApplyPattern(sel, pattern, columns, fd) ==
    LET hit(f) == {s \in DOMAIN fd[f] : _pattern_matches_sheet(pattern, f, s)}
        files  == DOMAIN sel \cup {f \in DOMAIN fd : hit(f) # {}}
        sheets(f) == (IF f \in DOMAIN sel THEN DOMAIN sel[f] ELSE {})
                     \cup (IF f \in DOMAIN fd THEN hit(f) ELSE {})
    IN  [f \in files |->
            [s \in sheets(f) |->
                IF f \in DOMAIN fd /\ s \in hit(f)
                THEN AddColumns(Selected(sel, f, s), columns, fd[f][s])
                ELSE sel[f][s]]]

\* lines 138-157: the patterns applied in stored order, from pattern i on
RECURSIVE ApplyPatterns(_, _, _, _)
ApplyPatterns(sel, patterns, i, fd) ==
    IF i > Len(patterns) THEN sel
    ELSE ApplyPatterns(ApplyPattern(sel, patterns[i][1], patterns[i][2], fd),
                       patterns, i + 1, fd)

\* the orders list(set(...)) may produce
ListsOfSet(S) ==
    {u \in [1..Cardinality(S) -> S] : \A i, j \in 1..Cardinality(S) : u[i] = u[j] => i = j}

\* list.remove: the first element equal to e is removed
RemoveFirst(s, e) ==
    LET i == CHOOSE j \in 1..Len(s) : s[j] = e /\ \A k \in 1..(j - 1) : s[k] # e
    IN  SubSeq(s, 1, i - 1) \o SubSeq(s, i + 1, Len(s))

\* add_column_pattern
\* add_column_pattern with `cols + columns` stored as it is
add_column_pattern_KeepsRepeats(sheet_pattern, columns) ==
    /\ UNCHANGED <<file_data, selections>>
    /\ last_add' = [pattern |-> sheet_pattern, columns |-> columns,
                    before |-> column_patterns]
    /\ IF \E i \in 1..Len(column_patterns) : column_patterns[i][1] = sheet_pattern
       THEN LET i == CHOOSE j \in 1..Len(column_patterns) :
                       /\ column_patterns[j][1] = sheet_pattern
                       /\ \A k \in 1..(j - 1) : column_patterns[k][1] # sheet_pattern
                cols == column_patterns[i][2]
            IN  column_patterns' =
                    Append(RemoveFirst(column_patterns, <<sheet_pattern, cols>>),
                           <<sheet_pattern, cols \o columns>>)
       ELSE column_patterns' = Append(column_patterns, <<sheet_pattern, columns>>)

add_column_pattern(sheet_pattern, columns) ==
    /\ UNCHANGED <<file_data, selections>>
    /\ last_add' = [pattern |-> sheet_pattern, columns |-> columns,
                    before |-> column_patterns]
    /\ IF \E i \in 1..Len(column_patterns) : column_patterns[i][1] = sheet_pattern
       THEN LET i == CHOOSE j \in 1..Len(column_patterns) :
                       /\ column_patterns[j][1] = sheet_pattern
                       /\ \A k \in 1..(j - 1) : column_patterns[k][1] # sheet_pattern
                cols == column_patterns[i][2]
            IN  \E unique_cols \in ListsOfSet(Range(cols \o columns)) :
                   column_patterns' =
                       Append(RemoveFirst(column_patterns, <<sheet_pattern, cols>>),
                              <<sheet_pattern, unique_cols>>)
       ELSE column_patterns' = Append(column_patterns, <<sheet_pattern, columns>>)

\* add_file_selection
add_file_selection(file_name, sheet_name, columns) ==
    add_column_pattern(FilePattern(file_name, sheet_name), columns)

\* match_to_new_files
match_to_new_files ==
    /\ selections' = ApplyPatterns(<<>>, column_patterns, 1, file_data)
    /\ profile_pc' = "matched"
    /\ UNCHANGED <<column_patterns, file_data, last_add>>

HeaderIdle ==
    /\ raw_df = [ncols |-> 0, rows |-> <<>>]
    /\ header_row = 0
    /\ df = NoTable
    /\ sheet_state = "raw"

(***************************************************************************)
(* The caller: a profile is built, then applied to freshly read file_data. *)
(***************************************************************************)
\* profiles of the model hold at most this many patterns
MaxPatterns == 2
\* the same, where the names of files and sheets vary
MaxNamePatterns == 1

BuildCall(max) ==
    /\ profile_pc = "build"
    /\ Len(column_patterns') <= max
    /\ UNCHANGED <<profile_pc, notProfileVars>>

ApplyCall ==
    /\ profile_pc = "build"
    /\ match_to_new_files
    /\ UNCHANGED notProfileVars

ProfileInit(fds) ==
    /\ column_patterns = <<>>
    /\ file_data \in fds
    /\ selections = <<>>
    /\ profile_pc = "build"
    /\ last_add = NoAdd

\* file_data built from a set of <<file, sheet, columns>> entries
FileDataOf(entries) ==
    [f \in {e[1] : e \in entries} |->
        [s \in {e[2] : e \in {x \in entries : x[1] = f}} |->
            (CHOOSE e \in entries : e[1] = f /\ e[2] = s)[3]]]

(***************************************************************************)
(* process_and_merge_data(file_data, selected_columns, output_path).       *)
(* workbook is what the call saved: the data worksheets in the order they  *)
(* were added, each with the file and sheet it was made for, its name and  *)
(* its header cells, and the rows of the Summary sheet.  The names of the  *)
(* model are names xlwt accepts, and the output path is writable.          *)
(***************************************************************************)
\* longest worksheet name
MaxSheetNameLen == 31
\* characters kept of a worksheet name that gets a counter
KeptSheetNameLen == 27

\* Path(file_name).stem
Stem(file_name) ==
    LET dots == {i \in 2..(Len(file_name) - 1) : file_name[i] = "."}
    IN  IF dots = {} THEN file_name
        ELSE SubSeq(file_name, 1, (CHOOSE i \in dots : \A j \in dots : j <= i) - 1)

\* lines 317-319
WorksheetName(file_name, sheet_name) ==
    LET ws_name == RemoveAll(RemoveAll(RemoveAll(Stem(file_name) \o <<"_">> \o sheet_name,
                                                 <<"[">>), <<"]">>), <<":">>)
    IN  SubSeq(ws_name, 1, Min(MaxSheetNameLen, Len(ws_name)))

\* lines 322-328: the while loop, entered with counter = 1
RECURSIVE UniqueName(_, _, _, _)
UniqueName(ws_name, original_ws_name, counter, existing_sheet_names) ==
    IF ws_name \notin existing_sheet_names THEN ws_name
    ELSE UniqueName(SubSeq(original_ws_name, 1, Min(KeptSheetNameLen, Len(original_ws_name)))
                        \o <<"_">> \o IntStr(counter),
                    original_ws_name, counter + 1, existing_sheet_names)

\* line 300: selected_columns.get(file_name, {}).get(sheet_name, [])
SelectedColumns(selection, file_name, sheet_name) ==
    IF file_name \in DOMAIN selection
    THEN IF sheet_name \in DOMAIN selection[file_name]
         THEN selection[file_name][sheet_name]
         ELSE <<>>
    ELSE <<>>

\* the worksheet lines 312-331 add for sheet p = <<file_name, sheet_name>>
NewWorksheet(worksheets, p, cols) ==
    LET ws_name == WorksheetName(p[1], p[2])
    IN  [file |-> p[1], sheet |-> p[2],
         name |-> UniqueName(ws_name, ws_name, 1, {worksheets[n].name : n \in 1..Len(worksheets)}),
         columns |-> cols]

\* MergeSheet with the selection indexed, selected_columns[file_name][sheet_name]:
\* a missing key raises
MergeSheet_AbsentRaises(acc, selection, fd, p) ==
    LET cols == SelectedColumns(selection, p[1], p[2])
    IN  IF ~acc.ok THEN acc
        ELSE IF ~(p[1] \in DOMAIN selection /\ p[2] \in DOMAIN selection[p[1]])
        THEN [ok |-> FALSE, worksheets |-> acc.worksheets]
        ELSE IF cols = <<>> THEN acc
        ELSE IF \E c \in Range(cols) : c \notin Range(fd[p[1]][p[2]])
        THEN [ok |-> FALSE, worksheets |-> acc.worksheets]
        ELSE [ok |-> TRUE, worksheets |-> Append(acc.worksheets, NewWorksheet(acc.worksheets, p, cols))]

\* lines 298-341: the loop body for sheet p; acc.ok is false once an
\* exception was raised (df[cols] raises for a column the table lacks)
MergeSheet(acc, selection, fd, p) ==
    LET cols == SelectedColumns(selection, p[1], p[2])
    IN  IF ~acc.ok THEN acc
        ELSE IF cols = <<>> THEN acc
        ELSE IF \E c \in Range(cols) : c \notin Range(fd[p[1]][p[2]])
        THEN [ok |-> FALSE, worksheets |-> acc.worksheets]
        ELSE [ok |-> TRUE, worksheets |-> Append(acc.worksheets, NewWorksheet(acc.worksheets, p, cols))]

\* lines 293-341: the loops over the sheets in the order `order`, from its
\* i-th sheet on
RECURSIVE MergeSheets(_, _, _, _, _)
MergeSheets(order, i, acc, selection, fd) ==
    IF i > Len(order) THEN acc
    ELSE MergeSheets(order, i + 1, MergeSheet(acc, selection, fd, order[i]),
                     selection, fd)

\* the orders in which the two loops over the dicts may visit the sheets:
\* the sheets of one file come together
SheetOrders(fd) ==
    {o \in ListsOfSet(UNION {{<<f, s>> : s \in DOMAIN fd[f]} : f \in DOMAIN fd}) :
        \A a, b, c \in 1..Len(o) : (a < b /\ b < c /\ o[a][1] = o[c][1]) => o[b][1] = o[a][1]}

\* lines 343-360: the rows of the Summary sheet
SummaryRows(selection) ==
    UNION {{<<f, s, selection[f][s]>> :
               s \in {t \in DOMAIN selection[f] : selection[f][t] # <<>>}} :
           f \in DOMAIN selection}

process_and_merge_data ==
    /\ merge_result = "none"
    /\ \E order \in SheetOrders(file_data) :
          LET acc == MergeSheets(order, 1, [ok |-> TRUE, worksheets |-> <<>>],
                                 selections, file_data)
          IN  IF acc.ok
              THEN /\ workbook' = [worksheets |-> acc.worksheets,
                                   summary |-> SummaryRows(selections)]
                   /\ merge_result' = "True"
              ELSE /\ workbook' = NoWorkbook
                   /\ merge_result' = "False"
    /\ UNCHANGED <<profileVars, headerVars, namesVars, readVars, storeVars, qtVars>>

\* the call made with the result of match_to_new_files, as apply_profile and
\* the processing step of the front end do
MergeCall ==
    /\ profile_pc = "matched"
    /\ process_and_merge_data

(***************************************************************************)
(* SpecMatch: plain names, varying columns.                                *)
(***************************************************************************)
ColX == <<"X">>
ColY == <<"Y">>
ColZ == <<"Z">>
ColW == <<"W">>
FileA == <<"A">>
FileB == <<"B">>
Sheet1 == <<"S", "1">>
Sheet2 == <<"S", "2">>

\* df.columns of the tables read
TableColumns == {<<ColX, ColY, ColZ>>, <<ColX>>, <<ColZ, ColY>>}

\* the column lists handed to the profile builders
ColumnLists == {<<ColX, ColY>>, <<ColY, ColW>>, <<ColZ, ColX, ColX>>}

\* file A with sheet S1 (and possibly S2), possibly file B with sheet S1
MatchFileDatas ==
    {FileDataOf({<<FileA, Sheet1, c1>>} \cup extra) :
        c1 \in TableColumns,
        extra \in {{}, {<<FileA, Sheet2, <<ColX, ColY, ColZ>>>>}}
                  \cup {{<<FileB, Sheet1, c2>>} : c2 \in TableColumns}
                  \cup {{<<FileA, Sheet2, <<ColX, ColY, ColZ>>>>, <<FileB, Sheet1, c2>>} :
                          c2 \in TableColumns}}

InitMatch ==
    HeaderIdle /\ ProfileInit(MatchFileDatas) /\ NamesIdle /\ ReadIdle /\ MergeIdle /\ StoreIdle /\ QtIdle

\* the pattern strings of the stored entries
StoredPatterns == {column_patterns[i][1] : i \in 1..Len(column_patterns)}

\* the builder calls of this specification each bring a pattern string that
\* is not stored yet
NextMatch ==
    \/ \E p \in {Sheet1, Sheet2}, cols \in ColumnLists :
          /\ p \notin StoredPatterns
          /\ add_column_pattern(p, cols) /\ BuildCall(MaxPatterns)
    \/ \E f \in {FileA, FileB}, s \in {Sheet1}, cols \in ColumnLists :
          /\ FilePattern(f, s) \notin StoredPatterns
          /\ add_file_selection(f, s, cols) /\ BuildCall(MaxPatterns)
    \/ ApplyCall
    \/ MergeCall

SpecMatch == InitMatch /\ [][NextMatch]_vars

(***************************************************************************)
(* SpecPattern: varying names of files, sheets and patterns.               *)
(***************************************************************************)
(***************************************************************************)
(* SpecBuild: a newly constructed profile receives builder calls only, the *)
(* same pattern more than once.                                            *)
(***************************************************************************)
BuildColumns == {<<ColX, ColY>>, <<ColY, ColZ, ColZ>>}

InitBuild ==
    HeaderIdle /\ ProfileIdle /\ NamesIdle /\ ReadIdle /\ MergeIdle /\ StoreIdle /\ QtIdle

NextBuild ==
    \/ \E p \in {Sheet1, FilePattern(FileA, Sheet1)}, cols \in BuildColumns :
          add_column_pattern(p, cols) /\ BuildCall(MaxPatterns)
    \/ \E f \in {FileA}, s \in {Sheet1}, cols \in BuildColumns :
          add_file_selection(f, s, cols) /\ BuildCall(MaxPatterns)

SpecBuild == InitBuild /\ [][NextBuild]_vars

NameFiles ==
    { <<"A">>, <<" ", "A">>, <<"A", "|", "B">>, FilePrefix \o <<"A">> }

NameSheets ==
    { <<"S">>, <<"s">>, <<"S", " ">>, SheetPrefix \o <<"S">>, FilePrefix \o <<"A">> }

\* pattern strings stored directly with add_column_pattern
RawPatterns ==
    { <<"S">>, FilePrefix \o <<"A">>, FilePrefix \o <<"A", "|", "S">> }

\* one or two files, each with the same one or two sheets
NameFileDatas ==
    {FileDataOf({<<f, s, <<ColX>>>> : f \in {f1, f2}, s \in {s1, s2}}) :
        f1 \in NameFiles, f2 \in NameFiles, s1 \in NameSheets, s2 \in NameSheets}

InitPattern ==
    HeaderIdle /\ ProfileInit(NameFileDatas) /\ NamesIdle /\ ReadIdle /\ MergeIdle /\ StoreIdle /\ QtIdle

NextPattern ==
    \/ \E p \in RawPatterns :
          add_column_pattern(p, <<ColX>>) /\ BuildCall(MaxNamePatterns)
    \/ \E f \in NameFiles, s \in NameSheets :
          add_file_selection(f, s, <<ColX>>) /\ BuildCall(MaxNamePatterns)
    \/ ApplyCall

SpecPattern == InitPattern /\ [][NextPattern]_vars

(***************************************************************************)
(* Claims about pattern strings (checked under SpecPattern).               *)
(***************************************************************************)
\* the (file, sheet) pairs of file_data
Pairs == UNION {{<<f, s>> : s \in DOMAIN file_data[f]} : f \in DOMAIN file_data}

\* (f, s) is a key of the returned selections
IsKey(f, s) == f \in DOMAIN selections /\ s \in DOMAIN selections[f]

\* the list the result exposes for (f, s)
ResultList(f, s) == IF IsKey(f, s) THEN selections[f][s] ELSE <<>>

PatternAt(i) == column_patterns[i][1]
ColumnsAt(i) == column_patterns[i][2]
Stored == 1..Len(column_patterns)

\* sub occurs in s
Contains(s, sub) ==
    \E i \in 0..(Len(s) - Len(sub)) : SubSeq(s, i + 1, i + Len(sub)) = sub

\* p has the form "file:...|sheet:..."
IsFileForm(p) == StartsWith(p, FilePrefix) /\ Contains(p, <<"|">> \o SheetPrefix)

\* p starts with "file:" and does not split into exactly two '|'-separated parts
IsMalformed(p) ==
    StartsWith(p, FilePrefix) /\ Cardinality({i \in 1..Len(p) : p[i] = "|"}) # 1

\* C5: the pattern add_file_selection(F, S, columns) stores matches a
\* (file, sheet) pair if and only if file = F and sheet = S, whatever
\* characters F and S contain.
C5_ExactPatternMatchesIffEqual ==
    profile_pc = "matched" =>
        \A F \in NameFiles, S \in NameSheets :
            column_patterns = << <<FilePattern(F, S), <<ColX>>>> >> =>
                \A p \in Pairs : IsKey(p[1], p[2]) <=> (p[1] = F /\ p[2] = S)

RuleMatches(pattern, f, s) ==
    \/ pattern = s
    \/ pattern = <<"f", "i", "l", "e", ":">> \o f \o <<"|", "s", "h", "e", "e", "t", ":">> \o s

\* C8: every selected column of (file, sheet) is a column of the sheet's table
\* and is listed by a pattern that matches (file, sheet).
C8_SelectedColumnsExistAndAreListed ==
    profile_pc = "matched" =>
        \A f \in DOMAIN selections : \A s \in DOMAIN selections[f] :
            /\ <<f, s>> \in Pairs
            /\ \A c \in Range(selections[f][s]) :
                  /\ c \in Range(file_data[f][s])
                  /\ \E i \in Stored : RuleMatches(PatternAt(i), f, s) /\ c \in Range(ColumnsAt(i))

\* C8 witness: a matching pattern lists a column the table lacks, and the
\* sheet still gets a non-empty selection
C8_Witness ==
    /\ profile_pc = "matched"
    /\ \E p \in Pairs : \E i \in Stored :
          /\ RuleMatches(PatternAt(i), p[1], p[2])
          /\ \E c \in Range(ColumnsAt(i)) : c \notin Range(file_data[p[1]][p[2]])
          /\ IsKey(p[1], p[2]) /\ selections[p[1]][p[2]] # <<>>

\* the columns the patterns from i on contribute to (f, s), in stored order
RECURSIVE Contributions(_, _, _)
Contributions(i, f, s) ==
    IF i > Len(column_patterns) THEN <<>>
    ELSE (IF RuleMatches(PatternAt(i), f, s)
          THEN SelectSeq(ColumnsAt(i), LAMBDA c : c \in Range(file_data[f][s]))
          ELSE <<>>) \o Contributions(i + 1, f, s)

\* a list reduced to the first occurrence of each element
RECURSIVE FirstOccurrences(_)
FirstOccurrences(l) ==
    IF l = <<>> THEN <<>>
    ELSE LET init == FirstOccurrences(SubSeq(l, 1, Len(l) - 1))
         IN  IF l[Len(l)] \in Range(init) THEN init ELSE Append(init, l[Len(l)])

\* C9: the list of (file, sheet) is the concatenation, in stored pattern
\* order, of the matching patterns' columns present in the table, each name
\* kept at its first occurrence.
C9_UnionInStoredOrder ==
    profile_pc = "matched" =>
        \A p \in Pairs :
            ResultList(p[1], p[2]) = FirstOccurrences(Contributions(1, p[1], p[2]))

\* C9 witness: two patterns match one sheet, the first contributes a column the
\* second does not list and the second a column the first does not list; the
\* result holds both, the first pattern's column first
C9_Witness ==
    /\ profile_pc = "matched"
    /\ \E p \in Pairs : \E i, j \in Stored :
          /\ i < j
          /\ RuleMatches(PatternAt(i), p[1], p[2]) /\ RuleMatches(PatternAt(j), p[1], p[2])
          /\ \E c \in Range(ColumnsAt(i)) \ Range(ColumnsAt(j)) :
             \E d \in Range(ColumnsAt(j)) \ Range(ColumnsAt(i)) :
                LET l == ResultList(p[1], p[2])
                IN  \E m, n \in 1..Len(l) : m < n /\ l[m] = c /\ l[n] = d

\* C10: no selection list holds a column name twice.
C10_NoDuplicateColumns ==
    profile_pc = "matched" =>
        \A f \in DOMAIN selections : \A s \in DOMAIN selections[f] :
            \A m, n \in 1..Len(selections[f][s]) :
                selections[f][s][m] = selections[f][s][n] => m = n

\* C10 witness: two patterns match one sheet and both list a column of its
\* table, the second of them twice; the column is selected
C10_Witness ==
    /\ profile_pc = "matched"
    /\ \E p \in Pairs : \E i, j \in Stored :
          /\ i < j
          /\ RuleMatches(PatternAt(i), p[1], p[2]) /\ RuleMatches(PatternAt(j), p[1], p[2])
          /\ \E c \in Range(ColumnsAt(i)) \cap Range(file_data[p[1]][p[2]]) :
                /\ Cardinality({k \in 1..Len(ColumnsAt(j)) : ColumnsAt(j)[k] = c}) = 2
                /\ c \in Range(ResultList(p[1], p[2]))

\* C11: when the profile has no pattern, or none of its patterns matches a
\* sheet of file_data, the result exposes no selected column for any sheet.
C11_NoMatchYieldsNoColumns ==
    (/\ profile_pc = "matched"
     /\ \A i \in Stored : \A p \in Pairs : ~RuleMatches(PatternAt(i), p[1], p[2]))
    => \A p \in Pairs : ResultList(p[1], p[2]) = <<>>

\* C11 witness: a profile with patterns, none of which matches a sheet of the
\* file_data it was applied to
C11_Witness ==
    /\ profile_pc = "matched"
    /\ Len(column_patterns) > 0
    /\ Pairs # {}
    /\ \A i \in Stored : \A p \in Pairs : ~RuleMatches(PatternAt(i), p[1], p[2])
    /\ \A p \in Pairs : ResultList(p[1], p[2]) = <<>>

(***************************************************************************)
(* detect_descriptive_column_names.                                        *)
(* df is the table [columns, values]; descriptive_names is the returned    *)
(* dict, column name -> label, once names_pc = "returned"; failing_cols    *)
(* are the column names whose inspection raises inside the try block.      *)
(***************************************************************************)
\* rows sampled per column
SampleSize == 20
\* longest label kept as it is
MaxLabelLen == 30
\* characters kept of a longer label
KeptLabelLen == 27

Ellipsis == <<".", ".", ".">>

\* s.isdigit()
IsDigit(s) == s # <<>> /\ \A i \in 1..Len(s) : s[i] \in Range(DigitChars)

\* df.empty
TableIsEmpty(t) == Len(t.values) = 0 \/ Len(t.columns) = 0

\* the values `for value in df[col].head(sample_size)` yields: the cells of
\* the column, or, when several columns bear the name col (df[col] is then a
\* DataFrame), its column labels
Sample(t, col) ==
    LET at == {k \in 1..Len(t.columns) : t.columns[k] = col}
        n  == Min(SampleSize, Len(t.values))
    IN  IF Cardinality(at) = 1
        THEN [j \in 1..n |-> t.values[j][CHOOSE k \in at : TRUE]]
        ELSE [j \in 1..Cardinality(at) |-> TextCell(col)]

\* the test of line 248
ValueQualifies(value) ==
    /\ ~IsNa(value)
    /\ value.kind = "str"
    /\ Strip(value.text) # <<>>
    /\ ~IsDigit(Strip(value.text))

\* variant: a candidate of exactly MaxLabelLen characters is cut too
CleanLabel_CutsAtLimit(value) ==
    LET desc_name == Strip(PyStr(value))
    IN  IF Len(desc_name) >= MaxLabelLen
        THEN SubSeq(desc_name, 1, KeptLabelLen) \o Ellipsis
        ELSE desc_name

\* lines 250-253
CleanLabel(value) ==
    LET desc_name == Strip(PyStr(value))
    IN  IF Len(desc_name) > MaxLabelLen
        THEN SubSeq(desc_name, 1, KeptLabelLen) \o Ellipsis
        ELSE desc_name

\* lines 247-259: the loop over the sample from position j on; col_str is
\* what the dict holds when no value is taken
RECURSIVE ScanSample(_, _, _)
ScanSample(sample, j, col_str) ==
    IF j > Len(sample) THEN col_str
    ELSE IF ValueQualifies(sample[j])
         THEN LET desc_name  == CleanLabel(sample[j])
                  is_generic == StartsWith(col_str, <<"C", "o", "l", "u", "m", "n", "_">>)
              IN  IF ~is_generic \/ Len(desc_name) > 0 THEN desc_name ELSE col_str
         ELSE ScanSample(sample, j + 1, col_str)

\* variant: one failing column makes every column fall back
ColumnLabel_FailureSpreads(t, col, failing) ==
    IF failing # {} THEN col ELSE ScanSample(Sample(t, col), 1, col)

\* lines 236-262: the label of one column
ColumnLabel(t, col, failing) ==
    IF col \in failing THEN col ELSE ScanSample(Sample(t, col), 1, col)

\* variant: a failing column gets no entry
DescriptiveNames_DropFailing(t, failing) ==
    IF TableIsEmpty(t) THEN <<>>
    ELSE [col \in Range(t.columns) \ failing |-> ColumnLabel(t, col, failing)]

\* lines 229-267
DescriptiveNames(t, failing) ==
    IF TableIsEmpty(t) THEN <<>>
    ELSE [col \in Range(t.columns) |-> ColumnLabel(t, col, failing)]

detect_descriptive_column_names ==
    /\ names_pc = "idle"
    /\ descriptive_names' = DescriptiveNames(df, failing_cols)
    /\ names_pc' = "returned"
    /\ UNCHANGED <<failing_cols, headerVars, profileVars, readVars, mergeVars, storeVars, qtVars>>

(***************************************************************************)
(* Tables the namer may be handed: read_excel_files stores them, so a      *)
(* column name is a trimmed header cell (possibly empty, long, or repeated)*)
(* or a synthetic Column_<i>.                                              *)
(***************************************************************************)
\* rows of non-qualifying cells ahead of the varied rows
MaxNameLead == 20
\* varied rows
MaxNameBody == 2

Letters == <<"a", "b", "c", "d", "e", "f", "g", "h", "i", "j">>

\* a text of n letters, no two neighbours alike
LongText(n) == [i \in 1..n |-> Letters[(i % 10) + 1]]

Padded(s) == <<" ">> \o s \o <<" ">>

\* the values a cell of the first column takes
NameCells ==
    {NaN, NumCell(5), TextCell(Padded(<<"7">>)), TextCell(<<" ", " ">>),
     TextCell(Padded(<<"a", "b">>)), TextCell(Padded(LongText(MaxLabelLen))),
     TextCell(Padded(LongText(MaxLabelLen + 1)))}

\* the cell of row j (1-based) in every further column
OtherCell(j) == IF j = 2 THEN TextCell(<<" ", "o", "k">>) ELSE NaN

NameColumns ==
    {<<>>, <<ColumnName(0)>>, <<<<"H">>, ColumnName(1)>>, <<<<"H">>, <<"H">>>>,
     <<LongText(MaxLabelLen + 1), <<"H">>>>, <<<<>>, <<"H">>>>}

NameTables ==
    {[columns |-> cols,
      values  |-> [j \in 1..(lead + Len(body)) |->
                     [k \in 1..Len(cols) |->
                        IF k > 1 THEN OtherCell(j)
                        ELSE IF j <= lead THEN NaN ELSE body[j - lead]]]] :
        cols \in NameColumns, lead \in 0..MaxNameLead,
        body \in SeqsUpTo(NameCells, MaxNameBody)}

InitNames ==
    /\ raw_df = [ncols |-> 0, rows |-> <<>>]
    /\ header_row = 0
    /\ sheet_state = "stored"
    /\ df \in NameTables
    /\ ProfileIdle
    /\ descriptive_names = <<>>
    /\ names_pc = "idle"
    /\ failing_cols \in SUBSET Range(df.columns)
    /\ ReadIdle
    /\ MergeIdle
    /\ QtIdle
    /\ StoreIdle

NextNames == detect_descriptive_column_names

SpecNames == InitNames /\ [][NextNames]_vars

(***************************************************************************)
(* read_excel_files, the whole call.                                       *)
(* file_paths is the list handed in, one record per path: name is          *)
(* os.path.basename(file_path); kind says what opening the workbook does   *)
(* ("opens"; "broken": pd.ExcelFile raises and there is no fallback result;*)
(* "xls": pd.ExcelFile raises and the xlrd read of the .xls file works);   *)
(* sheets lists, in workbook order, name, raw grid and whether processing  *)
(* the sheet raises.  file_data holds, per file and sheet, df.columns.     *)
(***************************************************************************)
\* d[k] = v
Put(d, k, v) == [x \in DOMAIN d \cup {k} |-> IF x = k THEN v ELSE d[x]]

\* del d[k]
Del(d, k) == [x \in DOMAIN d \ {k} |-> d[x]]

\* lines 131-192: the loop over the sheets from sheet j on; d is
\* file_data[file_name]
RECURSIVE ReadSheets(_, _, _)
ReadSheets(sheets, j, d) ==
    IF j > Len(sheets) THEN d
    ELSE IF sheets[j].fails THEN ReadSheets(sheets, j + 1, d)
    ELSE IF IsEmpty(sheets[j].grid) THEN ReadSheets(sheets, j + 1, d)
    ELSE ReadSheets(sheets, j + 1,
             Put(d, sheets[j].name,
                 BuildTable(sheets[j].grid, DetectHeaderRow(sheets[j].grid)).columns))

\* the column labels pd.read_excel gives with its default header=0: the
\* cells of row 0, a missing one named "Unnamed: <k>"
FallbackColumns(g) ==
    IF Len(g.rows) = 0 THEN <<>>
    ELSE [k \in 1..g.ncols |->
            IF IsNa(g.rows[1][k])
            THEN <<"U", "n", "n", "a", "m", "e", "d", ":", " ">> \o IntStr(k - 1)
            ELSE PyStr(g.rows[1][k])]

FallbackSheet == <<"S", "h", "e", "e", "t", "1">>

\* lines 98-203: one pass of the loop over file_paths
ReadFile(fd, file) ==
    IF file.kind = "opens"
    THEN LET d == ReadSheets(file.sheets, 1, <<>>)
         IN  IF DOMAIN d = {} THEN Del(fd, file.name) ELSE Put(fd, file.name, d)
    ELSE IF file.kind = "xls"
    THEN Put(fd, file.name, Put(<<>>, FallbackSheet, FallbackColumns(file.sheets[1].grid)))
    ELSE fd

\* lines 96-203
RECURSIVE ReadFiles(_, _, _)
ReadFiles(paths, i, fd) ==
    IF i > Len(paths) THEN fd
    ELSE ReadFiles(paths, i + 1, ReadFile(fd, paths[i]))

read_excel_files ==
    /\ read_pc = "idle"
    /\ file_data' = ReadFiles(file_paths, 1, <<>>)
    /\ read_pc' = "read"
    /\ UNCHANGED <<file_paths, column_patterns, selections, profile_pc, last_add, headerVars, namesVars,
                   mergeVars, storeVars, qtVars>>

(***************************************************************************)
(* SpecRead: lists of workbooks.                                           *)
(***************************************************************************)
\* paths handed to one call
MaxFiles == 2
\* sheets of one workbook
MaxSheets == 2

BaseNames == {<<"x">>, <<"y">>}

WorkbookSheets == <<Sheet1, Sheet2>>

\* a grid with a header in row 1, one without header, one without rows
ReadGrids ==
    {[ncols |-> 2, rows |-> <<<<NaN, NaN>>, <<CellAt(1), CellAt(2)>>, <<NaN, CellAt(2)>>>>],
     [ncols |-> 2, rows |-> <<<<NaN, CellAt(2)>>>>],
     [ncols |-> 2, rows |-> <<>>]}

\* what one sheet may be; a sheet without rows is read without failure
SheetsNamed(name) ==
    {[name |-> name, grid |-> g, fails |-> b] :
        g \in ReadGrids, b \in BOOLEAN} \ {[name |-> name, grid |-> [ncols |-> 2, rows |-> <<>>], fails |-> TRUE]}

\* the sheet lists of a workbook: distinct names, in workbook order
SheetLists ==
    {ss \in SeqsUpTo(UNION {SheetsNamed(WorkbookSheets[n]) :
                                n \in 1..Min(MaxSheets, Len(WorkbookSheets))}, MaxSheets) :
        \A a, b \in 1..Len(ss) : a < b => ss[a].name # ss[b].name /\ ss[a].name = Sheet1}

Workbooks ==
    {[name |-> n, kind |-> "opens", sheets |-> ss] : n \in BaseNames, ss \in SheetLists}
    \cup {[name |-> n, kind |-> "broken", sheets |-> <<>>] : n \in BaseNames}
    \cup {[name |-> n, kind |-> "xls",
           sheets |-> <<[name |-> Sheet1, grid |-> g, fails |-> FALSE]>>] :
              n \in BaseNames, g \in ReadGrids}

InitRead ==
    /\ HeaderIdle
    /\ ProfileIdle
    /\ NamesIdle
    /\ file_paths \in SeqsUpTo(Workbooks, MaxFiles)
    /\ read_pc = "idle"
    /\ MergeIdle
    /\ QtIdle
    /\ StoreIdle

NextRead == read_excel_files

SpecRead == InitRead /\ [][NextRead]_vars

UnnamedProfile ==
    <<"U", "n", "n", "a", "m", "e", "d", " ", "P", "r", "o", "f", "i", "l", "e">>

\* ExtractionProfile.__init__
ExtractionProfile(name) ==
    [name |-> name, column_patterns |-> <<>>, watch_folders |-> <<>>,
     output_folder |-> <<>>, auto_process |-> FALSE]

\* to_dict
ToDict(p) ==
    [name |-> p.name, column_patterns |-> p.column_patterns,
     watch_folders |-> p.watch_folders, output_folder |-> p.output_folder,
     auto_process |-> p.auto_process]

\* json.dump: the document written; a tuple and a list are both written as an
\* array
JsonDump(d) ==
    [d EXCEPT !.column_patterns =
        [i \in 1..Len(d.column_patterns) |->
            <<d.column_patterns[i].pattern, d.column_patterns[i].columns>>]]

\* json.load: every array is read as a list
JsonLoad(doc) ==
    [doc EXCEPT !.column_patterns =
        [i \in 1..Len(doc.column_patterns) |->
            [kind |-> "list", pattern |-> doc.column_patterns[i][1],
             columns |-> doc.column_patterns[i][2]]]]

\* from_dict with the auto_process of the record ignored
FromDict_ForgetsAutoProcess(data) ==
    [name           |-> IF "name" \in DOMAIN data THEN data.name ELSE UnnamedProfile,
     column_patterns |-> IF "column_patterns" \in DOMAIN data THEN data.column_patterns ELSE <<>>,
     watch_folders  |-> IF "watch_folders" \in DOMAIN data THEN data.watch_folders ELSE <<>>,
     output_folder  |-> IF "output_folder" \in DOMAIN data THEN data.output_folder ELSE <<>>,
     auto_process   |-> FALSE]

\* from_dict
FromDict(data) ==
    [name           |-> IF "name" \in DOMAIN data THEN data.name ELSE UnnamedProfile,
     column_patterns |-> IF "column_patterns" \in DOMAIN data THEN data.column_patterns ELSE <<>>,
     watch_folders  |-> IF "watch_folders" \in DOMAIN data THEN data.watch_folders ELSE <<>>,
     output_folder  |-> IF "output_folder" \in DOMAIN data THEN data.output_folder ELSE <<>>,
     auto_process   |-> IF "auto_process" \in DOMAIN data THEN data.auto_process ELSE FALSE]

\* the characters re.sub(r'[^\w\-_\. ]', '_', name) keeps
SafeChars ==
    Range(DigitChars)
    \cup {"a", "b", "c", "d", "e", "f", "g", "h", "i", "j", "k", "l", "m",
          "n", "o", "p", "q", "r", "s", "t", "u", "v", "w", "x", "y", "z",
          "A", "B", "C", "D", "E", "F", "G", "H", "I", "J", "K", "L", "M",
          "N", "O", "P", "Q", "R", "S", "T", "U", "V", "W", "X", "Y", "Z"}
    \cup {"_", "-", ".", " "}

\* lines 204-207: the file of a profile name, inside profiles_dir
ProfilePath(name) ==
    [i \in 1..Len(name) |-> IF name[i] \in SafeChars THEN name[i] ELSE "_"]
        \o <<".", "j", "s", "o", "n">>

\* `for pattern, columns in self.column_patterns`
Unpack(entries) == [i \in 1..Len(entries) |-> <<entries[i].pattern, entries[i].columns>>]

\* match_to_new_files of profile object p
Match(p, fd) == ApplyPatterns(<<>>, Unpack(p.column_patterns), 1, fd)

\* save_profile(profile) on the store st = [profiles, heap, disk]; ok tells
\* whether the file could be written
SaveProfile(st, oid, ok) ==
    LET named == IF st.heap[oid].name = <<>>
                 THEN [st.heap EXCEPT ![oid].name = UnnamedProfile]
                 ELSE st.heap
        p     == named[oid]
    IN  IF ok
        THEN [profiles |-> Put(st.profiles, p.name, oid),
              heap     |-> named,
              disk     |-> Put(st.disk, ProfilePath(p.name), JsonDump(ToDict(p)))]
        ELSE [profiles |-> st.profiles, heap |-> named, disk |-> st.disk]

\* lines 180-185
RECURSIVE UniqueProfileName(_, _, _, _)
UniqueProfileName(name, base_name, counter, keys) ==
    IF name \notin keys THEN name
    ELSE UniqueProfileName(base_name \o <<" ", "(">> \o IntStr(counter) \o <<")">>,
                           base_name, counter + 1, keys)

Store == [profiles |-> profiles, heap |-> heap, disk |-> disk]

\* the record of a call made in the current state
Call(op, arg, ret, ok, name, new) ==
    [op |-> op, arg |-> arg, ret |-> ret, ok |-> ok, name |-> name, new |-> new,
     before |-> profiles, before_default |-> default_profile_name,
     seq |-> last_call.seq + 1]

SetStore(st) ==
    /\ profiles' = st.profiles
    /\ heap' = st.heap
    /\ disk' = st.disk

\* create_profile(name)
create_profile(name) ==
    \E ok \in BOOLEAN :
        LET unique  == UniqueProfileName(name, name, 1, DOMAIN profiles)
            oid     == Len(heap) + 1
            created == [profiles |-> Put(profiles, unique, oid),
                        heap     |-> Append(heap, ExtractionProfile(unique)),
                        disk     |-> disk]
        IN  /\ SetStore(SaveProfile(created, oid, ok))
            /\ last_call' = Call("create", 0, oid, TRUE, name, <<>>)
            /\ UNCHANGED defaultVars
            /\ UNCHANGED notStoreVars

\* save_profile(profile), profile the object oid
save_profile(oid) ==
    \E ok \in BOOLEAN :
        /\ SetStore(SaveProfile(Store, oid, ok))
        /\ last_call' = Call("save", oid, 0, ok, heap[oid].name, <<>>)
        /\ UNCHANGED defaultVars
        /\ UNCHANGED notStoreVars

\* load_profile(file_path): a path without file raises inside the try block
load_profile(file_path) ==
    /\ IF file_path \in DOMAIN disk
       THEN LET profile == FromDict(JsonLoad(disk[file_path]))
                oid     == Len(heap) + 1
            IN  /\ heap' = Append(heap, profile)
                /\ profiles' = Put(profiles, profile.name, oid)
                /\ last_call' = Call("load", 0, oid, TRUE, file_path, <<>>)
       ELSE /\ UNCHANGED <<heap, profiles>>
            /\ last_call' = Call("load", 0, 0, TRUE, file_path, <<>>)
    /\ UNCHANGED <<disk, defaultVars>>
    /\ UNCHANGED notStoreVars

(***************************************************************************)
(* SpecRoundTrip: one profile saved, then loaded back.                     *)
(***************************************************************************)
RoundTripNames == {<<>>, <<"P">>, <<"a", "/", "b">>}

RoundTripEntries ==
    {[kind |-> k, pattern |-> p, columns |-> c] :
        k \in {"tuple", "list"}, p \in {Sheet1, FilePattern(FileA, Sheet1)},
        c \in {<<ColX, ColY>>, <<ColY>>}}

RoundTripProfiles ==
    {[name |-> n, column_patterns |-> e, watch_folders |-> w, output_folder |-> o,
      auto_process |-> a] :
        n \in RoundTripNames, e \in SeqsUpTo(RoundTripEntries, MaxPatterns),
        w \in {<<>>, <<<<"w">>>>}, o \in {<<>>, <<"o">>}, a \in BOOLEAN}

InitRoundTrip ==
    /\ HeaderIdle
    /\ ProfileIdle
    /\ NamesIdle
    /\ ReadIdle
    /\ MergeIdle
    /\ QtIdle
    /\ profiles = <<>>
    /\ heap \in {<<p>> : p \in RoundTripProfiles}
    /\ disk = <<>>
    /\ last_call = NoCall
    /\ default_profile_name = <<>>
    /\ settings = <<>>
    /\ writers = NoWriters

NextRoundTrip ==
    \/ last_call.op = "none" /\ save_profile(1) /\ UNCHANGED writers
    \/ last_call.op = "save" /\ \E path \in DOMAIN disk \cup {ProfilePath(<<"P">>)} : load_profile(path) /\ UNCHANGED writers

SpecRoundTrip == InitRoundTrip /\ [][NextRoundTrip]_vars

(***************************************************************************)
(* SpecStore: profiles created, saved and loaded in one ProfileManager.    *)
(***************************************************************************)
\* profile objects of one run
\* lines 77-91 on a profile object of the store, whose entries are tuples or
\* lists: `self.column_patterns.remove((pattern, cols))` removes the first
\* element equal to the tuple, and a list is never equal to a tuple, so the
\* call raises ValueError when no tuple with this pattern and these columns
\* is in the list; nothing has been changed by then
add_column_pattern_on(oid, sheet_pattern, columns) ==
    LET entries == heap[oid].column_patterns
        Has(j)  == entries[j].pattern = sheet_pattern
    IN  /\ IF \E j \in 1..Len(entries) : Has(j)
           THEN LET i      == CHOOSE j \in 1..Len(entries) :
                                 Has(j) /\ \A k \in 1..(j - 1) : ~Has(k)
                    cols   == entries[i].columns
                    target == [kind |-> "tuple", pattern |-> sheet_pattern, columns |-> cols]
                IN  IF \E j \in 1..Len(entries) : entries[j] = target
                    THEN \E unique_cols \in ListsOfSet(Range(cols \o columns)) :
                            /\ heap' = [heap EXCEPT ![oid].column_patterns =
                                           Append(RemoveFirst(entries, target),
                                                  [target EXCEPT !.columns = unique_cols])]
                            /\ last_call' = Call("add", oid, 0, TRUE, sheet_pattern, <<>>)
                    ELSE /\ UNCHANGED heap
                         /\ last_call' = Call("add", oid, 0, FALSE, sheet_pattern, <<>>)
           ELSE /\ heap' = [heap EXCEPT ![oid].column_patterns =
                               Append(entries, [kind |-> "tuple", pattern |-> sheet_pattern,
                                                columns |-> columns])]
                /\ last_call' = Call("add", oid, 0, TRUE, sheet_pattern, <<>>)
        /\ UNCHANGED <<profiles, disk, defaultVars>>
        /\ UNCHANGED notStoreVars

\* lines 340-369: save_settings writes the default name to settings.json and
\* returns False, leaving the file as it was, when the write fails
save_settings(ok) == IF ok THEN default_profile_name' ELSE settings

\* a call that returns False before it has touched anything
Refused(op, name, new) ==
    /\ last_call' = Call(op, 0, 0, FALSE, name, new)
    /\ UNCHANGED <<profiles, heap, disk, defaultVars>>
    /\ UNCHANGED notStoreVars

\* delete_profile without the reset of lines 272-274
delete_profile_KeepsDefault(name) ==
    IF name \notin DOMAIN profiles
    THEN Refused("delete", name, <<>>)
    ELSE \E io \in BOOLEAN :
            LET file_path == ProfilePath(heap[profiles[name]].name)
            IN  IF ~io /\ file_path \in DOMAIN disk
                THEN Refused("delete", name, <<>>)
                ELSE /\ disk' = Del(disk, file_path)
                     /\ profiles' = Del(profiles, name)
                     /\ last_call' = Call("delete", 0, 0, TRUE, name, <<>>)
                     /\ UNCHANGED <<heap, defaultVars>>
                     /\ UNCHANGED notStoreVars

\* lines 253-282: the file is found from the name of the profile object, the
\* dict entry from the argument; io is whether os.remove succeeds and sok
\* whether the settings file can be written
delete_profile(name) ==
    IF name \notin DOMAIN profiles
    THEN Refused("delete", name, <<>>)
    ELSE \E io \in BOOLEAN, sok \in BOOLEAN :
            LET file_path == ProfilePath(heap[profiles[name]].name)
            IN  IF ~io /\ file_path \in DOMAIN disk
                THEN Refused("delete", name, <<>>)
                ELSE /\ disk' = Del(disk, file_path)
                     /\ profiles' = Del(profiles, name)
                     /\ default_profile_name' =
                            IF default_profile_name = name THEN <<>> ELSE default_profile_name
                     /\ settings' = IF default_profile_name = name
                                    THEN save_settings(sok) ELSE settings
                     /\ last_call' = Call("delete", 0, 0, TRUE, name, <<>>)
                     /\ UNCHANGED heap
                     /\ UNCHANGED notStoreVars

\* lines 284-320: the old file is found from old_name; the profile is given
\* the new name and saved (the result of save_profile is not looked at), then
\* moved from the old key to the new one
rename_profile(old_name, new_name) ==
    IF old_name \notin DOMAIN profiles \/ new_name \in DOMAIN profiles
    THEN Refused("rename", old_name, new_name)
    ELSE \E io \in BOOLEAN, ok \in BOOLEAN, sok \in BOOLEAN :
            LET oid           == profiles[old_name]
                old_file_path == ProfilePath(old_name)
                removed       == [profiles |-> profiles,
                                  heap     |-> [heap EXCEPT ![oid].name = new_name],
                                  disk     |-> Del(disk, old_file_path)]
                saved         == SaveProfile(removed, oid, ok)
            IN  IF ~io /\ old_file_path \in DOMAIN disk
                THEN Refused("rename", old_name, new_name)
                ELSE /\ profiles' = Put(Del(saved.profiles, old_name), new_name, oid)
                     /\ heap' = saved.heap
                     /\ disk' = saved.disk
                     /\ default_profile_name' =
                            IF default_profile_name = old_name
                            THEN new_name ELSE default_profile_name
                     /\ settings' = IF default_profile_name = old_name
                                    THEN save_settings(sok) ELSE settings
                     /\ last_call' = Call("rename", oid, 0, TRUE, old_name, new_name)
                     /\ UNCHANGED notStoreVars

\* lines 322-338
set_default_profile(name) ==
    IF name \notin DOMAIN profiles /\ name # <<>>
    THEN Refused("set_default", name, <<>>)
    ELSE \E sok \in BOOLEAN :
            /\ default_profile_name' = name
            /\ settings' = save_settings(sok)
            /\ last_call' = Call("set_default", 0, 0, sok, name, <<>>)
            /\ UNCHANGED <<profiles, heap, disk>>
            /\ UNCHANGED notStoreVars

\* os.listdir: the files of the directory, in some order
Listing == CHOOSE files \in ListsOfSet(DOMAIN disk) : TRUE

\* lines 240-251: the dict is emptied and every file of the directory loaded;
\* each load makes a new object and registers it under the name in the file
load_all_profiles ==
    /\ heap' = [i \in 1..Len(Listing) |-> FromDict(JsonLoad(disk[Listing[i]]))]
    /\ profiles' = [name \in {heap'[i].name : i \in 1..Len(Listing)} |->
                        CHOOSE i \in 1..Len(Listing) : heap'[i].name = name]
    /\ last_call' = Call("load_all", 0, 0, TRUE, <<>>, <<>>)
    /\ UNCHANGED <<disk, defaultVars>>
    /\ UNCHANGED notStoreVars

MaxProfiles == 3

\* how many calls a client makes
MaxCalls == 4

\* the names the dialog or another caller hands to the manager: the empty
\* name, the placeholder name, and two names that differ only in a character
\* the file name replaces
StoreNames == {<<>>, UnnamedProfile, <<"/">>, <<"_">>}

\* the client has calls left
MoreCalls == last_call.seq < MaxCalls

InitStore ==
    /\ HeaderIdle
    /\ ProfileIdle
    /\ NamesIdle
    /\ ReadIdle
    /\ MergeIdle
    /\ QtIdle
    /\ StoreIdle

NextStore ==
    \/ \E name \in StoreNames :
          MoreCalls /\ Len(heap) < MaxProfiles /\ create_profile(name) /\ UNCHANGED writers
    \/ \E oid \in 1..Len(heap) : MoreCalls /\ save_profile(oid) /\ UNCHANGED writers
    \/ \E name \in StoreNames : MoreCalls /\ delete_profile(name) /\ UNCHANGED writers
    \/ \E old_name \in StoreNames, new_name \in StoreNames :
          MoreCalls /\ rename_profile(old_name, new_name) /\ UNCHANGED writers
    \/ \E name \in StoreNames : MoreCalls /\ set_default_profile(name) /\ UNCHANGED writers
    \/ MoreCalls /\ load_all_profiles /\ UNCHANGED writers

\* the calls that deal with the default: a store that is filled, renamed,
\* emptied and given a default, and never reloaded
NextDefault ==
    \/ \E name \in StoreNames :
          MoreCalls /\ Len(heap) < MaxProfiles /\ create_profile(name) /\ UNCHANGED writers
    \/ \E name \in StoreNames : MoreCalls /\ delete_profile(name) /\ UNCHANGED writers
    \/ \E old_name \in StoreNames, new_name \in StoreNames :
          MoreCalls /\ rename_profile(old_name, new_name) /\ UNCHANGED writers
    \/ \E name \in StoreNames : MoreCalls /\ set_default_profile(name) /\ UNCHANGED writers

SpecDefault == InitStore /\ [][NextDefault]_vars

(***************************************************************************)
(* Two clients of one store write to the same profile.  Nothing in         *)
(* ProfileManager takes a lock, so the calls of the two interleave freely:  *)
(* each loads the profile, adds a pattern to the object it got, and saves   *)
(* that object.  The profile was built and saved before they start.         *)
(***************************************************************************)
SharedName == <<"P">>

SharedProfile ==
    [ExtractionProfile(SharedName) EXCEPT !.column_patterns =
        <<[kind |-> "tuple", pattern |-> Sheet1, columns |-> <<ColX>>]>>]

\* the patterns a writer adds, with their columns
WriterPatterns == {Sheet1, Sheet2, FilePattern(FileA, Sheet1)}
WriterColumns == {<<ColY>>, <<ColX, ColY>>}

InitWriters ==
    /\ HeaderIdle
    /\ ProfileIdle
    /\ NamesIdle
    /\ ReadIdle
    /\ MergeIdle
    /\ QtIdle
    /\ heap = <<SharedProfile>>
    /\ profiles = Put(<<>>, SharedName, 1)
    /\ disk = Put(<<>>, ProfilePath(SharedName), JsonDump(ToDict(SharedProfile)))
    /\ last_call = NoCall
    /\ default_profile_name = <<>>
    /\ settings = <<>>
    /\ writers = NoWriters

WriterLoad(w) ==
    /\ writers[w].pc = "start"
    /\ load_profile(ProfilePath(SharedName))
    /\ writers' = [writers EXCEPT ![w].pc = "loaded", ![w].oid = last_call'.ret]

WriterAdd(w) ==
    /\ writers[w].pc = "loaded"
    /\ \E sheet_pattern \in WriterPatterns, columns \in WriterColumns :
          /\ add_column_pattern_on(writers[w].oid, sheet_pattern, columns)
          /\ writers' = [writers EXCEPT
                           ![w].pc = IF last_call'.ok THEN "added" ELSE "raised",
                           ![w].pattern = sheet_pattern]

\* a writer may add more columns to the pattern it has just added
WriterAddMore(w) ==
    /\ writers[w].pc = "added"
    /\ \E columns \in WriterColumns :
          add_column_pattern_on(writers[w].oid, writers[w].pattern, columns)
    /\ writers' = [writers EXCEPT ![w].pc = IF last_call'.ok THEN "merged" ELSE "raised"]

WriterSave(w) ==
    /\ writers[w].pc \in {"added", "merged"}
    /\ save_profile(writers[w].oid)
    /\ writers' = [writers EXCEPT ![w].pc = IF last_call'.ok THEN "saved" ELSE "failed"]

NextWriters ==
    \/ \E w \in Writers : WriterLoad(w)
    \/ \E w \in Writers : WriterAdd(w)
    \/ \E w \in Writers : WriterAddMore(w)
    \/ \E w \in Writers : WriterSave(w)

SpecWriters == InitWriters /\ [][NextWriters]_vars

SpecStore == InitStore /\ [][NextStore]_vars

(***************************************************************************)
(* Claims about detect_descriptive_column_names (SpecNames).               *)
(***************************************************************************)
Returned == names_pc = "returned"

Labelled == DOMAIN descriptive_names

\* the 1-based rows of df inside the sampling window
Window == 1..Min(SampleSize, Len(df.values))

QualifyingRows(k) ==
    {j \in Window :
        LET v == df.values[j][k]
        IN  /\ v.kind = "str"
            /\ \E i \in 1..Len(v.text) : v.text[i] \notin Whitespace
            /\ \E i \in 1..Len(v.text) : v.text[i] \notin Whitespace \cup Range(DigitChars)}

FirstRow(S) == CHOOSE j \in S : \A i \in S : j <= i

\* C13: in a table with rows, with no failure, the label of each column is
\* the existing name when no row of the window qualifies, and otherwise comes
\* from the first qualifying row: it starts with the first character of that
\* value's trimmed text.
C13_LabelFromFirstQualifyingValue ==
    (Returned /\ failing_cols = {} /\ Len(df.values) > 0) =>
        \A k \in 1..Len(df.columns) :
            LET col == df.columns[k]
                Q   == QualifyingRows(k)
            IN  /\ col \in Labelled
                /\ Q = {} => descriptive_names[col] = col
                /\ Q # {} =>
                      LET text == Strip(df.values[FirstRow(Q)][k].text)
                      IN  /\ descriptive_names[col] # <<>>
                          /\ \/ descriptive_names[col] = text
                             \/ /\ Len(text) > KeptLabelLen
                                /\ Len(descriptive_names[col]) > KeptLabelLen
                                /\ SubSeq(descriptive_names[col], 1, KeptLabelLen)
                                       = SubSeq(text, 1, KeptLabelLen)

\* the candidate of a column: the trimmed text of the first value the loop
\* accepts, <<>> when it accepts none
RECURSIVE CandidateFrom(_, _)
CandidateFrom(sample, j) ==
    IF j > Len(sample) THEN <<>>
    ELSE IF ValueQualifies(sample[j]) THEN Strip(sample[j].text)
         ELSE CandidateFrom(sample, j + 1)

Candidate(col) == CandidateFrom(Sample(df, col), 1)

\* C14: a candidate longer than 30 characters becomes its first 27
\* characters followed by "...", 30 characters in all; a candidate of 30
\* characters or fewer is the label as it is.
C14_LongLabelTruncated ==
    Returned =>
        \A col \in Labelled \ failing_cols :
            LET cand == Candidate(col)
            IN  cand # <<>> =>
                  IF Len(cand) > 30
                  THEN /\ descriptive_names[col] = SubSeq(cand, 1, 27) \o <<".", ".", ".">>
                       /\ Len(descriptive_names[col]) = 30
                  ELSE descriptive_names[col] = cand

C14_Witness ==
    /\ Returned
    /\ \E col \in Labelled \ failing_cols :
          /\ Len(Candidate(col)) = 31
          /\ Len(descriptive_names[col]) = 30
          /\ SubSeq(descriptive_names[col], 28, 30) = <<".", ".", ".">>

\* C15: a column whose inspection fails is labelled with its existing name,
\* the call still returns, and every other column has the entry it has when
\* nothing fails.
C15_ColumnFailureIsLocal ==
    (Returned /\ ~TableIsEmpty(df)) =>
        /\ Labelled = Range(df.columns)
        /\ \A col \in failing_cols : descriptive_names[col] = col
        /\ \A col \in Labelled \ failing_cols :
              descriptive_names[col] = ScanSample(Sample(df, col), 1, col)

C15_Witness ==
    /\ Returned
    /\ \E col \in failing_cols :
          /\ Candidate(col) # <<>>
          /\ descriptive_names[col] = col
    /\ \E col \in Labelled \ failing_cols :
          /\ Candidate(col) # <<>>
          /\ descriptive_names[col] # col

(***************************************************************************)
(* Claims about read_excel_files (SpecRead).                               *)
(***************************************************************************)
\* the (i, j) of the sheets of the workbooks that open
SheetsRead ==
    UNION {{<<i, j>> : j \in 1..Len(file_paths[i].sheets)} :
              i \in {n \in 1..Len(file_paths) : file_paths[n].kind = "opens"}}

SheetFails(p) == file_paths[p[1]].sheets[p[2]].fails

\* the sheet is read without failure and has cells
SheetSucceeds(p) ==
    LET sheet == file_paths[p[1]].sheets[p[2]]
    IN  ~sheet.fails /\ Len(sheet.grid.rows) > 0 /\ sheet.grid.ncols > 0

\* file_data has an entry for the sheet under its file's name
SheetPresent(p) ==
    LET f == file_paths[p[1]].name
        s == file_paths[p[1]].sheets[p[2]].name
    IN  f \in DOMAIN file_data /\ s \in DOMAIN file_data[f]

\* C16: when the processing of a sheet fails, the call still returns, and
\* every other sheet, of the same file and of every other file, that is
\* processed without failure is in the returned file_data.
C16_SheetFailureIsLocal ==
    (read_pc = "read" /\ \E p \in SheetsRead : SheetFails(p)) =>
        \A q \in SheetsRead : SheetSucceeds(q) => SheetPresent(q)

(***************************************************************************)
(* Claims about process_and_merge_data (SpecMatch).                        *)
(***************************************************************************)
\* the workbook holds a data worksheet made for sheet s of file f
Written(f, s) ==
    \E n \in 1..Len(workbook.worksheets) :
        workbook.worksheets[n].file = f /\ workbook.worksheets[n].sheet = s

\* C18: the call does not fail over a sheet of file_data that the selection
\* lacks (file key or sheet key missing) and writes no worksheet for it, as
\* for a sheet with an empty list; a sheet gets a data worksheet exactly when
\* its selected list is non-empty.
C18_AbsentSelectionIsEmpty ==
    merge_result # "none" =>
        /\ merge_result = "True"
        /\ \A p \in Pairs :
              /\ ~IsKey(p[1], p[2]) => ~Written(p[1], p[2])
              /\ (IsKey(p[1], p[2]) /\ selections[p[1]][p[2]] = <<>>) => ~Written(p[1], p[2])
              /\ (IsKey(p[1], p[2]) /\ selections[p[1]][p[2]] # <<>>) => Written(p[1], p[2])

C18_Witness ==
    /\ merge_result = "True"
    /\ \E p \in Pairs : p[1] \notin DOMAIN selections /\ ~Written(p[1], p[2])
    /\ \E p \in Pairs :
          /\ p[1] \in DOMAIN selections
          /\ p[2] \notin DOMAIN selections[p[1]]
          /\ ~Written(p[1], p[2])
    /\ \E p \in Pairs : IsKey(p[1], p[2]) /\ Written(p[1], p[2])

(***************************************************************************)
(* Claims about the ProfileManager.                                        *)
(***************************************************************************)
\* C19: the profile load_profile builds from the record save_profile(p)
\* wrote has p's name, p's patterns in p's order with p's column lists, p's
\* watch_folders, output_folder and auto_process, and match_to_new_files
\* gives the same result on both for every file_data.
C19_SaveLoadRoundTrip ==
    (last_call.op = "load" /\ last_call.ret # 0) =>
        LET p == heap[1]
            q == heap[last_call.ret]
        IN  /\ q.name = p.name
            /\ Len(q.column_patterns) = Len(p.column_patterns)
            /\ \A i \in 1..Len(p.column_patterns) :
                  /\ q.column_patterns[i].pattern = p.column_patterns[i].pattern
                  /\ q.column_patterns[i].columns = p.column_patterns[i].columns
            /\ q.watch_folders = p.watch_folders
            /\ q.output_folder = p.output_folder
            /\ q.auto_process = p.auto_process
            /\ \A fd \in MatchFileDatas : Match(q, fd) = Match(p, fd)

C19_Witness ==
    /\ last_call.op = "load"
    /\ last_call.ret = 2
    /\ Len(heap[1].column_patterns) = 2
    /\ heap[1].column_patterns[1].kind = "tuple"
    /\ heap[1].column_patterns[1] # heap[1].column_patterns[2]
    /\ heap[1].auto_process
    /\ heap[1].watch_folders # <<>>
    /\ \E fd \in MatchFileDatas : Match(heap[2], fd) # <<>>

\* C20: create_profile returns a profile whose name was not a key of the
\* store before the call, and every profile the store held before the call
\* is still held under the same name after it.
C20_CreateKeepsNamesUnique ==
    last_call.op = "create" =>
        /\ heap[last_call.ret].name \notin DOMAIN last_call.before
        /\ \A k \in DOMAIN last_call.before :
              k \in DOMAIN profiles /\ profiles[k] = last_call.before[k]

(***************************************************************************)
(* The Qt window, once a ZIP file has been processed.  selected_columns is *)
(* the dict of the window, file -> sheet -> list of columns; checked is    *)
(* the set of checkboxes <<file, sheet, column>> that are ticked;          *)
(* current_sheet is the <<file, sheet>> shown in the sheet stack, <<>> for *)
(* the welcome page; tab is the tab in front, or "aborted" once an         *)
(* exception has left a slot and ended the program; output_thread is the   *)
(* OutputProcessorThread that was started last, with the selection it was  *)
(* given.  File and sheet names of the model have no "_", so that the key  *)
(* of a sheet widget splits back into the two names.                       *)
(***************************************************************************)
notQtVars == <<headerVars, profileVars, namesVars, readVars, mergeVars, storeVars>>

\* lines 1233-1265, the slot of a checkbox, as a function of the dict; state
\* is whether the box is ticked now
column_selection_changed(sel, file_name, sheet_name, column_name, state) ==
    LET sheets == IF file_name \in DOMAIN sel THEN sel[file_name] ELSE <<>>
        cols   == IF sheet_name \in DOMAIN sheets THEN sheets[sheet_name] ELSE <<>>
        after  == IF state
                  THEN IF column_name \in Range(cols) THEN cols ELSE Append(cols, column_name)
                  ELSE IF column_name \in Range(cols)
                       THEN RemoveFirst(cols, column_name) ELSE cols
        kept   == IF after = <<>> THEN Del(sheets, sheet_name) ELSE Put(sheets, sheet_name, after)
    IN  IF DOMAIN kept = {} THEN Del(sel, file_name) ELSE Put(sel, file_name, kept)

\* lines 1399-1414: the boxes of the sheet are set one after the other; a box
\* whose state changes runs the slot before the next box is looked at, and
\* the look-up of line 1411 raises KeyError when the slot has removed the
\* entry of the sheet that has_selections found
RECURSIVE UpdateCheckboxes(_, _, _, _, _, _)
UpdateCheckboxes(g, file_name, sheet_name, columns, i, has_selections) ==
    IF i > Len(columns) \/ g.raised THEN g
    ELSE LET column == columns[i]
             box    == <<file_name, sheet_name, column>>
             gone   == has_selections
                       /\ ~(file_name \in DOMAIN g.sel /\ sheet_name \in DOMAIN g.sel[file_name])
             want   == has_selections /\ ~gone
                       /\ column \in Range(g.sel[file_name][sheet_name])
             next   == IF gone THEN [g EXCEPT !.raised = TRUE]
                       ELSE IF want = (box \in g.chk) THEN g
                       ELSE [sel |-> column_selection_changed(g.sel, file_name, sheet_name,
                                                              column, want),
                             chk |-> IF want THEN g.chk \cup {box} ELSE g.chk \ {box},
                             raised |-> FALSE]
         IN  UpdateCheckboxes(next, file_name, sheet_name, columns, i + 1, has_selections)

\* lines 1379-1414
update_checkboxes_for_sheet(sel, chk, file_name, sheet_name) ==
    UpdateCheckboxes([sel |-> sel, chk |-> chk, raised |-> FALSE], file_name, sheet_name,
                     file_data[file_name][sheet_name], 1,
                     file_name \in DOMAIN sel /\ sheet_name \in DOMAIN sel[file_name])

\* the window after the update g of the boxes: an exception that leaves the
\* slot ends the program or is only reported, as the Qt binding decides
AfterUpdate(g) ==
    /\ selected_columns' = g.sel
    /\ checked' = g.chk
    /\ \E ends \in BOOLEAN : tab' = IF g.raised /\ ends THEN "aborted" ELSE tab

\* lines 1008-1016: a sheet is picked in the tree
on_tree_item_clicked(file_name, sheet_name) ==
    /\ tab = "select"
    /\ current_sheet' = <<file_name, sheet_name>>
    /\ AfterUpdate(update_checkboxes_for_sheet(selected_columns, checked,
                                                file_name, sheet_name))
    /\ UNCHANGED <<output_thread, notQtVars>>

\* the user ticks or clears a box of the sheet that is shown
ClickCheckbox(column_name) ==
    LET box == <<current_sheet[1], current_sheet[2], column_name>>
    IN  /\ tab = "select"
        /\ checked' = IF box \in checked THEN checked \ {box} ELSE checked \cup {box}
        /\ selected_columns' =
              column_selection_changed(selected_columns, box[1], box[2], column_name,
                                       box \notin checked)
        /\ UNCHANGED <<current_sheet, tab, output_thread, notQtVars>>

\* lines 1651-1680, with the profile column_patterns
apply_profile ==
    LET matched == ApplyPatterns(<<>>, column_patterns, 1, file_data)
    IN  /\ tab \in {"select", "output"}
        /\ IF matched = <<>>
           THEN UNCHANGED <<selected_columns, checked, tab>>
           ELSE IF tab = "select" /\ current_sheet # <<>>
                THEN AfterUpdate(update_checkboxes_for_sheet(matched, checked,
                                                             current_sheet[1], current_sheet[2]))
                ELSE selected_columns' = matched /\ UNCHANGED <<checked, tab>>
        /\ UNCHANGED <<current_sheet, output_thread, notQtVars>>

\* lines 1417-1441
check_selection_and_continue ==
    /\ tab = "select"
    /\ tab' = IF selected_columns = <<>> THEN tab ELSE "output"
    /\ UNCHANGED <<selected_columns, checked, current_sheet, output_thread, notQtVars>>

\* line 1099: the back button of the output tab
BackToSelection ==
    /\ tab = "output"
    /\ tab' = "select"
    /\ UNCHANGED <<selected_columns, checked, current_sheet, output_thread, notQtVars>>

\* lines 1443-1481; has_path is whether an output location is known
generate_output_file ==
    /\ tab = "output"
    /\ \E has_path \in BOOLEAN :
          output_thread' = IF has_path /\ selected_columns # <<>>
                           THEN [started |-> TRUE, selected_columns |-> selected_columns]
                           ELSE output_thread
    /\ UNCHANGED <<selected_columns, checked, current_sheet, tab, notQtVars>>

\* the sheets the window shows and the profiles that are applied
QtFileDatas ==
    {FileDataOf({<<FileA, Sheet1, <<ColX, ColY>>>>, <<FileA, Sheet2, <<ColY>>>>} \cup extra) :
        extra \in {{}, {<<FileB, Sheet1, <<ColX>>>>}}}

QtProfiles ==
    {<<>>,
     <<<<Sheet1, <<ColX>>>>>>,
     <<<<Sheet1, <<ColW>>>>>>,
     <<<<Sheet1, <<ColW>>>>, <<Sheet2, <<ColY, ColX>>>>>>,
     <<<<FilePattern(FileA, Sheet1), <<ColY>>>>, <<Sheet1, <<ColX>>>>>>}

\* lines 1192-1215: the state processing_finished leaves when no default
\* profile is set
InitQt ==
    /\ HeaderIdle /\ NamesIdle /\ ReadIdle /\ MergeIdle /\ StoreIdle
    /\ column_patterns \in QtProfiles
    /\ file_data \in QtFileDatas
    /\ selections = <<>>
    /\ profile_pc = "build"
    /\ last_add = NoAdd
    /\ selected_columns = <<>>
    /\ checked = {}
    /\ current_sheet = <<>>
    /\ tab = "select"
    /\ output_thread = NoThread

NextQt ==
    \/ \E p \in Pairs : on_tree_item_clicked(p[1], p[2])
    \/ \E p \in Pairs : \E c \in Range(file_data[p[1]][p[2]]) :
          current_sheet = p /\ ClickCheckbox(c)
    \/ apply_profile
    \/ check_selection_and_continue
    \/ BackToSelection
    \/ generate_output_file

SpecQt == InitQt /\ [][NextQt]_vars

\* C21: once delete_profile(name) has returned True the name is no longer a
\* key of the store, and a load_all_profiles that follows the deletion does
\* not bring a profile of that name back.
C21_DeletionIsTerminal ==
    [][(last_call.op = "delete" /\ last_call.ok) =>
          /\ last_call.name \notin DOMAIN profiles
          /\ last_call'.op = "load_all" => last_call.name \notin DOMAIN profiles']_vars

\* C23: a rename_profile(old, new) that finds old missing or new taken
\* returns False and leaves the dict, the profiles, the files and the default
\* as they were; a rename that returns True leaves the profile under new and
\* under no other key, a file for new whose record is named new, no record
\* named old, and new as the default when old was the default.
C23_RenameIsAllOrNothing ==
    [][last_call'.op = "rename" =>
          LET old_name == last_call'.name
              new_name == last_call'.new
          IN  /\ (old_name \notin DOMAIN profiles \/ new_name \in DOMAIN profiles) =>
                    /\ ~last_call'.ok
                    /\ UNCHANGED <<profiles, heap, disk, default_profile_name, settings>>
              /\ last_call'.ok =>
                    /\ new_name \in DOMAIN profiles'
                    /\ profiles'[new_name] = profiles[old_name]
                    /\ \A k \in DOMAIN profiles' :
                          profiles'[k] = profiles[old_name] => k = new_name
                    /\ ProfilePath(new_name) \in DOMAIN disk'
                    /\ disk'[ProfilePath(new_name)].name = new_name
                    /\ \A path \in DOMAIN disk' : disk'[path].name # old_name
                    /\ default_profile_name = old_name => default_profile_name' = new_name]_vars

\* C24: the default is "" or a key of the store; set_default_profile with a
\* non-empty name that is not a key returns False and leaves the default as
\* it was; a delete_profile of the default that returns True leaves the
\* default "".
C24_DefaultIsStored ==
    [][/\ default_profile_name' = <<>> \/ default_profile_name' \in DOMAIN profiles'
       /\ (last_call'.op = "set_default" /\ last_call'.name # <<>>
              /\ last_call'.name \notin DOMAIN profiles) =>
             ~last_call'.ok /\ UNCHANGED default_profile_name
       /\ (last_call'.op = "delete" /\ last_call'.ok
              /\ last_call'.name = default_profile_name) =>
             default_profile_name' = <<>>]_vars

\* a named default has been set and the default profile then deleted
C24_Witness ==
    /\ last_call.op = "delete"
    /\ last_call.ok
    /\ last_call.name # <<>>
    /\ last_call.before_default = last_call.name
    /\ default_profile_name = <<>>

\* C25: two keys of the store never have the same file.
C25_NoSharedFile ==
    \A j \in DOMAIN profiles, k \in DOMAIN profiles :
        j # k => ProfilePath(j) # ProfilePath(k)

\* C26: every key of the store maps to a profile of that name, and no
\* profile is held under two keys.
C26_KeysAreNames ==
    \A k \in DOMAIN profiles :
        /\ heap[profiles[k]].name = k
        /\ \A j \in DOMAIN profiles : profiles[j] = profiles[k] => j = k

\* C22: when two writers have each loaded the profile, added a pattern and
\* saved, the persisted profile holds the pattern of each of them.
C22_NoLostUpdate ==
    (\A w \in Writers : writers[w].pc = "saved") =>
        \A w \in Writers :
            \E i \in 1..Len(disk[ProfilePath(SharedName)].column_patterns) :
                disk[ProfilePath(SharedName)].column_patterns[i][1] = writers[w].pattern

\* C28: add_column_pattern on a profile object of the store, loaded or not,
\* does not raise.
C28_AddOnLoadedProfileMerges ==
    last_call.op = "add" => last_call.ok

\* C27: no two entries of a profile built by add_column_pattern and
\* add_file_selection have the same pattern string; a call that brings a
\* pattern already stored leaves the list as long as it was, with the entry
\* of that pattern replaced by one whose columns are the columns of the old
\* entry and of the call, each exactly once, and with the other entries as
\* they were and in the order they had.
C27_AddMergesInPlace ==
    LET n      == Len(column_patterns)
        before == last_add.before
        Had(j) == before[j][1] = last_add.pattern
    IN  /\ \A i, j \in 1..n : column_patterns[i][1] = column_patterns[j][1] => i = j
        /\ (\E j \in 1..Len(before) : Had(j)) =>
              LET i      == CHOOSE j \in 1..Len(before) : Had(j)
                  merged == column_patterns[n][2]
              IN  /\ n = Len(before)
                  /\ column_patterns[n][1] = last_add.pattern
                  /\ Range(merged) = Range(before[i][2]) \cup Range(last_add.columns)
                  /\ \A a, b \in 1..Len(merged) : merged[a] = merged[b] => a = b
                  /\ SubSeq(column_patterns, 1, n - 1)
                        = SubSeq(before, 1, i - 1) \o SubSeq(before, i + 1, Len(before))

\* a call has added columns to the first of two stored patterns, one of
\* them a column the entry had already
C27_Witness ==
    /\ Len(last_add.before) = 2
    /\ last_add.before[1][1] = last_add.pattern
    /\ Range(last_add.before[1][2]) \cap Range(last_add.columns) # {}
    /\ ~(Range(last_add.columns) \subseteq Range(last_add.before[1][2]))
    /\ column_patterns[1] = last_add.before[2]

\* the stored patterns for which _pattern_matches_sheet accepts (f, s)
Matching(f, s) == {i \in Stored : _pattern_matches_sheet(PatternAt(i), f, s)}

\* C29: (file, sheet) is a key of the result exactly when a pattern of the
\* profile matches it; the result has no file without a sheet and no key that
\* is not a sheet of file_data; a matched sheet whose table has none of the
\* columns of its patterns is a key with the empty list.
C29_KeysAreMatchedSheets ==
    profile_pc = "matched" =>
        /\ \A p \in Pairs : IsKey(p[1], p[2]) <=> Matching(p[1], p[2]) # {}
        /\ \A f \in DOMAIN selections :
              /\ DOMAIN selections[f] # {}
              /\ \A s \in DOMAIN selections[f] : <<f, s>> \in Pairs
        /\ \A p \in Pairs :
              (/\ Matching(p[1], p[2]) # {}
               /\ \A i \in Matching(p[1], p[2]) :
                     Range(ColumnsAt(i)) \cap Range(file_data[p[1]][p[2]]) = {})
              => IsKey(p[1], p[2]) /\ selections[p[1]][p[2]] = <<>>

\* a matched sheet with none of its columns is a key with the empty list,
\* another sheet of the same file is unmatched and no key, and another file
\* has no matched sheet and is absent
C29_Witness ==
    /\ profile_pc = "matched"
    /\ \E p \in Pairs : IsKey(p[1], p[2]) /\ selections[p[1]][p[2]] = <<>>
    /\ \E p \in Pairs : p[1] \in DOMAIN selections /\ ~IsKey(p[1], p[2])
    /\ \E f \in DOMAIN file_data : f \notin DOMAIN selections

\* the number of columns a selection holds
Total(sel) ==
    Cardinality(UNION {UNION {{<<f, s, i>> : i \in 1..Len(sel[f][s])} : s \in DOMAIN sel[f]} :
                          f \in DOMAIN sel})

\* C30: selected_columns has no file without a sheet and no sheet with an
\* empty list, the output tab is in front only with a column selected, and
\* an output thread is started only with a column selected.
C30_OutputNeedsAColumn ==
    /\ \A f \in DOMAIN selected_columns :
          /\ DOMAIN selected_columns[f] # {}
          /\ \A s \in DOMAIN selected_columns[f] : selected_columns[f][s] # <<>>
    /\ output_thread.started => Total(output_thread.selected_columns) > 0

====
